---- MODULE Spec2Model ----
(***************************************************************************)
(* Model of src/bookstore/models/book.py: the Book dataclass with its      *)
(* __post_init__ validation and get_age, and the Rating class with its     *)
(* range check.  Strings are sequences of characters; a character is a     *)
(* one-element token, the non-ASCII ones named by their code point.  The   *)
(* system clock (datetime.now()) is a tick counter the environment moves.  *)
(* Python's None / a missing keyword argument is the empty sequence <<>>,  *)
(* a present value x is <<x>>.                                             *)
(***************************************************************************)
EXTENDS Integers, Sequences, FiniteSets, TLC

(* ------------------------------ bounds --------------------------------- *)
MaxTime == 3
TicksPerYear == 2
BaseYear == 2024
ImportTime == 1
MaxLive == 2

(* ------------------------- program constants --------------------------- *)
ISBN_LEN == 13
MIN_RATING == 0
MAX_RATING == 5

None == <<>>
Some(x) == <<x>>

(* ------------------------------ the clock ------------------------------ *)
\* datetime.now().year for the clock reading t
Year(t) == BaseYear + (t \div TicksPerYear)

(* --------------------------- str operations ---------------------------- *)
AsciiDigits == {"0", "1", "2", "3", "4", "5", "6", "7", "8", "9"}
\* characters outside 0-9 for which str.isdigit() is True:
\* U+00B2 SUPERSCRIPT TWO (Numeric_Type=Digit), U+0663 ARABIC-INDIC DIGIT THREE
UnicodeDigits == {"U+00B2", "U+0663"}

\* str.replace(old, "") for a one-character old: every occurrence is removed
Replace(s, old) == SelectSeq(s, LAMBDA c : c # old)

\* str.isdigit(): at least one character, and every character is a digit
IsDigit(s) == Len(s) > 0 /\ \A i \in 1..Len(s) : s[i] \in AsciiDigits \cup UnicodeDigits

\* clean_isbn of Book._validate_isbn
CleanIsbn_hyphens_only(isbn) == Replace(isbn, "-")
CleanIsbn(isbn) == Replace(Replace(isbn, "-"), " ")

\* the condition under which Book._validate_isbn does not raise
IsbnAccepted(isbn) == Len(CleanIsbn(isbn)) = ISBN_LEN /\ IsDigit(CleanIsbn(isbn))

\* the condition under which Book._validate_publication_year does not raise
YearAccepted_off_by_one(publication_year, cur) == ~(publication_year > cur + 1)
YearAccepted_strict(publication_year, cur) == publication_year < cur
YearAccepted(publication_year, cur) == ~(publication_year > cur)

\* the condition under which Rating.__init__ does not raise
RatingAccepted_exclusive(rating) == MIN_RATING < rating /\ rating <= MAX_RATING
RatingAccepted(rating) == MIN_RATING <= rating /\ rating <= MAX_RATING

\* the calls of Book.__post_init__, in order
PostInitSteps == <<"_validate_isbn", "_validate_publication_year">>

\* the value Book.get_age returns for book b when the clock reads t
GetAgeValue_cached(b, t) == Year(b.added_at) - b.publication_year
GetAgeValue(b, t) == Year(t) - b.publication_year

(* ------------------------------- state --------------------------------- *)
VARIABLES
  now,              \* the system clock, in ticks (what datetime.now() reads)
  default_added_at, \* the default of the dataclass field added_at
  clock_set_back,   \* history: the clock has stepped back since the module was imported
  books,            \* the Book instances the caller holds, in construction order
  ratings,          \* the Rating instances the caller holds
  built_books,      \* history: per Book, the arguments it was constructed with, the fields
                    \* assigned since, and whether the clock's year has decreased since
  built_ratings,    \* history: per Rating, the arguments it was constructed with
  pc,               \* "idle", or the step of the constructor call in progress
  self,             \* the object under construction, None when no call runs
  call,             \* history: the arguments of the constructor call that runs or has raised
  raised,           \* the exception the latest constructor call raised, None if none
  age               \* the latest get_age() result, None before the first call

vars == <<now, default_added_at, clock_set_back, books, ratings, built_books, built_ratings,
          pc, self, call, raised, age>>

instances == <<books, ratings, built_books, built_ratings>>

(* ------------------------------- inputs -------------------------------- *)
\* the digits of the docstring's example ISBN, and one more
ExampleDigits == <<"9", "7", "8", "0", "7", "4", "7", "5", "3", "2", "6", "9", "9", "9">>
GroupEnds == {3, 4, 8, 12}

RECURSIVE Grouped(_, _, _)
\* s with sep written after each group of the example's layout, from position i on
Grouped(s, sep, i) ==
  IF i > Len(s) THEN <<>>
  ELSE <<s[i]>> \o (IF i \in GroupEnds /\ i < Len(s) THEN sep ELSE <<>>) \o Grouped(s, sep, i + 1)

\* n digits, the last one replaced by the characters last, grouped with sep
IsbnInput(n, sep, last) ==
  Grouped(IF n = 0 THEN <<>> ELSE SubSeq(ExampleDigits, 1, n - 1) \o last, sep, 1)

\* "978-0-7475-3269-9" and "123"
ExampleIsbn == IsbnInput(ISBN_LEN, <<"-">>, <<"9">>)
ShortIsbn == <<"1", "2", "3">>

IsbnLengths == {0, 3, ISBN_LEN - 1, ISBN_LEN, ISBN_LEN + 1}
Separators == {<<>>, <<"-">>, <<" ">>, <<"x">>, <<"TAB">>, <<"-", " ">>}
LastChars == {<<"9">>, <<"x">>, <<"-">>, <<" ">>, <<"U+00B2">>, <<"U+0663">>, <<>>}
IsbnInputs ==
  {ShortIsbn} \cup {IsbnInput(n, sep, last) : n \in IsbnLengths, sep \in Separators, last \in LastChars}

FarFuture == 3000
YearInputs == {-1, 0, BaseYear - 27} \cup {Year(t) : t \in 0..(MaxTime + TicksPerYear)} \cup {FarFuture}
Titles == {<<>>, <<"H", "P">>}
Authors == {<<>>, <<"R">>}
Descriptions == {None, Some(<<"d">>)}
AddedAtInputs == {None, Some(0)}

RatingInputs == (MIN_RATING - 1)..(MAX_RATING + 1)
IdInputs == {1, 2}

(* -------------------------------- Init --------------------------------- *)
\* the state once the module is imported: the class body has been evaluated
Init ==
  /\ now = ImportTime
  /\ default_added_at = now
  /\ clock_set_back = FALSE
  /\ books = <<>>
  /\ ratings = <<>>
  /\ built_books = <<>>
  /\ built_ratings = <<>>
  /\ pc = "idle"
  /\ self = None
  /\ call = None
  /\ raised = None
  /\ age = None

(* ------------------------------ the clock ------------------------------ *)
Tick ==
  /\ now < MaxTime
  /\ now' = now + 1
  /\ UNCHANGED <<default_added_at, clock_set_back, instances, pc, self, call, raised, age>>

\* the wall clock is set back (datetime.now() is not monotonic)
ClockBack ==
  /\ now > 0
  /\ now' = now - 1
  /\ clock_set_back' = TRUE
  /\ built_books' = [i \in DOMAIN built_books |->
                       [built_books[i] EXCEPT !.year_back = @ \/ Year(now - 1) < Year(now)]]
  /\ UNCHANGED <<default_added_at, books, ratings, built_ratings, pc, self, call, raised, age>>

(* ------------------------------ raising -------------------------------- *)
\* an exception leaves the constructor: the caller gets no object
Raise_keeps_object(kind, value) ==
  /\ raised' = Some([kind |-> kind, value |-> value])
  /\ pc' = "idle"
  /\ self' = None
  /\ UNCHANGED call
  /\ IF kind = "InvalidRatingError"
       THEN /\ ratings' = Append(ratings, self[1])
            /\ built_ratings' = Append(built_ratings, call[1])
            /\ UNCHANGED <<books, built_books>>
       ELSE /\ books' = Append(books, self[1])
            /\ built_books' = Append(built_books, call[1] @@ [assigned |-> {}, year_back |-> FALSE])
            /\ UNCHANGED <<ratings, built_ratings>>
Raise(kind, value) ==
  /\ raised' = Some([kind |-> kind, value |-> value])
  /\ pc' = "idle"
  /\ self' = None
  /\ UNCHANGED <<call, instances>>

(* -------------------------------- Book --------------------------------- *)
\* the default of added_at: evaluated once, in the class body
DefaultAddedAt_fresh == now
DefaultAddedAt == default_added_at

\* the generated __init__: assigns the fields, then calls __post_init__
BookInit(isbn, title, author, publication_year, description, added_at) ==
  /\ pc = "idle"
  /\ self' = Some([isbn |-> isbn, title |-> title, author |-> author,
                   publication_year |-> publication_year, description |-> description,
                   added_at |-> IF added_at = None THEN DefaultAddedAt ELSE added_at[1]])
  /\ call' = Some([cls |-> "Book", isbn |-> isbn, title |-> title, author |-> author,
                   publication_year |-> publication_year, description |-> description,
                   added_at |-> added_at])
  /\ pc' = PostInitSteps[1]
  /\ raised' = None
  /\ UNCHANGED <<now, default_added_at, clock_set_back, instances, age>>

\* a step of __post_init__ has returned: the next one runs, or the constructor returns
StepDone(step) ==
  LET i == CHOOSE k \in 1..Len(PostInitSteps) : PostInitSteps[k] = step IN
  IF i < Len(PostInitSteps)
    THEN /\ pc' = PostInitSteps[i + 1]
         /\ UNCHANGED <<self, call, books, built_books>>
    ELSE /\ pc' = "idle"
         /\ books' = Append(books, self[1])
         /\ built_books' = Append(built_books, call[1] @@ [assigned |-> {}, year_back |-> FALSE])
         /\ self' = None
         /\ call' = None

ValidateIsbn_normalising ==
  /\ pc = "_validate_isbn"
  /\ IF IsbnAccepted(self[1].isbn)
       THEN /\ pc' = "_validate_publication_year"
            /\ self' = Some([self[1] EXCEPT !.isbn = CleanIsbn(@)])
            /\ UNCHANGED <<call, raised, instances>>
       ELSE Raise("InvalidISBNError", self[1].isbn)
  /\ UNCHANGED <<now, default_added_at, clock_set_back, age>>
ValidateIsbn ==
  /\ pc = "_validate_isbn"
  /\ IF IsbnAccepted(self[1].isbn)
       THEN StepDone("_validate_isbn") /\ UNCHANGED <<raised, ratings, built_ratings>>
       ELSE Raise("InvalidISBNError", self[1].isbn)
  /\ UNCHANGED <<now, default_added_at, clock_set_back, age>>

ValidatePublicationYear ==
  /\ pc = "_validate_publication_year"
  /\ IF YearAccepted(self[1].publication_year, Year(now))
       THEN StepDone("_validate_publication_year") /\ UNCHANGED <<raised, ratings, built_ratings>>
       ELSE Raise("InvalidPublicationYearError", self[1].publication_year)
  /\ UNCHANGED <<now, default_added_at, clock_set_back, age>>

GetAge(i) ==
  /\ pc = "idle"
  /\ i \in 1..Len(books)
  /\ age' = Some([book |-> i,
                  value |-> GetAgeValue(books[i], now),
                  year |-> Year(now),
                  publication_year |-> books[i].publication_year,
                  before |-> IF age # None /\ age[1].book = i
                               THEN Some([value |-> age[1].value, year |-> age[1].year,
                                          publication_year |-> age[1].publication_year])
                               ELSE None])
  /\ UNCHANGED <<now, default_added_at, clock_set_back, instances, pc, self, call, raised>>

\* book.<field> = value by the caller: Book is a dataclass that is not frozen
SetBookAttr(i, field, value) ==
  /\ pc = "idle"
  /\ i \in 1..Len(books)
  /\ books' = [books EXCEPT ![i][field] = value]
  /\ built_books' = [built_books EXCEPT ![i].assigned = @ \cup {field}]
  /\ UNCHANGED <<now, default_added_at, clock_set_back, ratings, built_ratings, pc, self, call,
                 raised, age>>

(* ------------------------------- Rating -------------------------------- *)
\* Rating.__init__, the three assignments
RatingInit(isbn, id, rating) ==
  /\ pc = "idle"
  /\ self' = Some([isbn |-> isbn, id |-> id, rating |-> rating])
  /\ call' = Some([cls |-> "Rating", isbn |-> isbn, id |-> id, rating |-> rating, assigned |-> {}])
  /\ pc' = "rating_check"
  /\ raised' = None
  /\ UNCHANGED <<now, default_added_at, clock_set_back, instances, age>>

\* Rating.__init__, the range test
RatingCheck ==
  /\ pc = "rating_check"
  /\ IF RatingAccepted(self[1].rating)
       THEN /\ pc' = "idle"
            /\ ratings' = Append(ratings, self[1])
            /\ built_ratings' = Append(built_ratings, call[1])
            /\ self' = None
            /\ call' = None
            /\ UNCHANGED <<raised, books, built_books>>
       ELSE Raise("InvalidRatingError", self[1].rating)
  /\ UNCHANGED <<now, default_added_at, clock_set_back, age>>

\* rating.<field> = value by the caller: Rating's fields are plain attributes
SetRatingAttr(i, field, value) ==
  /\ pc = "idle"
  /\ i \in 1..Len(ratings)
  /\ ratings' = [ratings EXCEPT ![i][field] = value]
  /\ built_ratings' = [built_ratings EXCEPT ![i].assigned = @ \cup {field}]
  /\ UNCHANGED <<now, default_added_at, clock_set_back, books, built_books, pc, self, call,
                 raised, age>>

(* ---------------------- the caller, and the specifications ------------- *)
\* a program that builds Books and Ratings, asks ages and assigns attributes
NewBook ==
  /\ Len(books) + Len(ratings) < MaxLive
  /\ \E py \in {Year(t) : t \in 0..MaxTime} \cup {FarFuture} :
       \/ \E added_at \in AddedAtInputs :
            BookInit(ExampleIsbn, <<"H", "P">>, <<"R">>, py, None, added_at)
       \/ BookInit(ShortIsbn, <<"H", "P">>, <<"R">>, py, None, None)

NewRating ==
  /\ Len(books) + Len(ratings) < MaxLive
  /\ \E r \in {MIN_RATING - 1, MIN_RATING, MAX_RATING + 1} : RatingInit(ShortIsbn, 1, r)

CallGetAge == \E i \in 1..Len(books) : GetAge(i)

AssignBook == \E i \in 1..Len(books) : SetBookAttr(i, "publication_year", FarFuture)

AssignRating == \E i \in 1..Len(ratings) : SetRatingAttr(i, "rating", MAX_RATING + 1)

Next ==
  \/ Tick
  \/ ClockBack
  \/ NewBook
  \/ ValidateIsbn
  \/ ValidatePublicationYear
  \/ NewRating
  \/ RatingCheck
  \/ CallGetAge
  \/ AssignBook
  \/ AssignRating

Spec == Init /\ [][Next]_vars

\* the construction of one Book, from any input: the first constructor call
NewBookAny ==
  /\ call = None /\ raised = None /\ books = <<>>
  /\ \E isbn \in IsbnInputs, title \in Titles, author \in Authors, py \in YearInputs,
        description \in Descriptions :
       BookInit(isbn, title, author, py, description, None)

NextBook ==
  \/ Tick
  \/ ClockBack
  \/ NewBookAny
  \/ ValidateIsbn
  \/ ValidatePublicationYear

SpecBook == Init /\ [][NextBook]_vars

\* the construction of Ratings, from any input
NewRatingAny ==
  /\ Len(ratings) < MaxLive
  /\ \E isbn \in {ExampleIsbn, ShortIsbn}, id \in IdInputs, r \in RatingInputs :
       RatingInit(isbn, id, r)

NextRating ==
  \/ NewRatingAny
  \/ RatingCheck

SpecRating == Init /\ [][NextRating]_vars

(* ------------------------- vocabulary of the claims -------------------- *)
\* isbn with its hyphens and spaces removed
Stripped(isbn) == SelectSeq(isbn, LAMBDA c : c \notin {"-", " "})

\* once hyphens and spaces are removed: exactly 13 characters, each one of 0-9
ThirteenDecimalDigits(isbn) ==
  /\ Len(Stripped(isbn)) = 13
  /\ \A i \in 1..Len(Stripped(isbn)) : Stripped(isbn)[i] \in AsciiDigits

\* this step ends a call of the Book constructor, by a return or by an exception
EndsBook == pc # "idle" /\ pc' = "idle" /\ call[1].cls = "Book"

\* this step is the normal return of the Book constructor called with arguments a
ReturnsBook(a) ==
  /\ raised' = None
  /\ Len(books') = Len(books) + 1
  /\ \A f \in {"isbn", "title", "author", "publication_year", "description"} :
       books'[Len(books')][f] = a[f]

\* this step raises kind, carrying value
Raises(kind, value) ==
  /\ raised' # None
  /\ raised'[1].kind = kind
  /\ raised'[1].value = value
  /\ books' = books

\* the fields a Book built from the arguments a has
BookOf(a) ==
  [isbn |-> a.isbn, title |-> a.title, author |-> a.author,
   publication_year |-> a.publication_year, description |-> a.description,
   added_at |-> IF a.added_at = None THEN default_added_at ELSE a.added_at[1]]

\* the fields a Rating built from the arguments a has
RatingOf(a) == [isbn |-> a.isbn, id |-> a.id, rating |-> a.rating]

(* ------------------------------- claims -------------------------------- *)
\* C1: a Book whose ISBN is 13 decimal digits once hyphens and spaces are removed, and
\* whose publication year is not above the current year, is constructed without an
\* error, whatever its title, author and description; the fields are the arguments.
C1_ValidBookConstructs ==
  [][(EndsBook /\ ThirteenDecimalDigits(call[1].isbn) /\ call[1].publication_year <= Year(now))
       => ReturnsBook(call[1])]_vars

\* a Book with spaces and hyphens in its ISBN, an empty title, a description and year -1
C1_Witness ==
  /\ pc = "idle" /\ raised = None /\ Len(books) = 1
  /\ books[1].isbn = IsbnInput(13, <<"-", " ">>, <<"9">>)
  /\ books[1].title = <<>>
  /\ books[1].description # None
  /\ books[1].publication_year = -1

\* C2: a Book whose ISBN is not 13 decimal digits 0-9 once hyphens and spaces are
\* removed is refused with InvalidISBNError, which carries the ISBN as it was given.
C2_NonDecimalIsbnRefused ==
  [][(EndsBook /\ ~ThirteenDecimalDigits(call[1].isbn))
       => Raises("InvalidISBNError", call[1].isbn)]_vars

\* C3: with a valid ISBN, construction succeeds when the publication year is at most
\* the year the clock reads when the year is validated, and otherwise raises
\* InvalidPublicationYearError carrying the year.
C3_YearAgainstClock ==
  [][(EndsBook /\ ThirteenDecimalDigits(call[1].isbn))
       => IF call[1].publication_year <= Year(now)
            THEN ReturnsBook(call[1])
            ELSE Raises("InvalidPublicationYearError", call[1].publication_year)]_vars

\* a Book published in the clock's last year, a year the clock had not reached at import
C3_Witness ==
  /\ pc = "idle" /\ Len(books) = 1
  /\ ThirteenDecimalDigits(books[1].isbn)
  /\ books[1].publication_year = Year(MaxTime)
  /\ Year(ImportTime) < Year(MaxTime)

\* C4: a Rating is constructed if and only if 0 <= rating <= 5, whatever isbn and id;
\* otherwise InvalidRatingError carries the rating.
C4_RatingRangeOnly ==
  /\ \A i \in 1..Len(ratings) :
       /\ ratings[i] = RatingOf(built_ratings[i])
       /\ 0 <= built_ratings[i].rating /\ built_ratings[i].rating <= 5
  /\ (pc = "idle" /\ call # None)
       => /\ raised # None
          /\ raised[1].kind = "InvalidRatingError"
          /\ raised[1].value = call[1].rating
          /\ (call[1].rating < 0 \/ call[1].rating > 5)

\* two Ratings with the same id and the isbn "123", rated 0 and 5
C4_Witness ==
  /\ Len(ratings) >= 2
  /\ ratings[1].id = ratings[2].id
  /\ ratings[1].isbn = ShortIsbn /\ ratings[2].isbn = ShortIsbn
  /\ ratings[1].rating = 0 /\ ratings[2].rating = 5

\* C5: get_age returns the clock's year at the call minus the publication year, and
\* changes no field; two calls on a Book whose publication year is the same differ by
\* the years the clock moved between them.
C5_AgeFromLiveClock ==
  [][age' # age
       => /\ age'[1].value = Year(now) - books[age'[1].book].publication_year
          /\ books' = books /\ ratings' = ratings
          /\ (age'[1].before # None /\ age'[1].before[1].publication_year = age'[1].publication_year)
               => age'[1].value - age'[1].before[1].value = age'[1].year - age'[1].before[1].year]_vars

\* two calls on one Book, the clock's year one more at the second
C5_Witness ==
  /\ age # None
  /\ age[1].before # None
  /\ age[1].year = age[1].before[1].year + 1
  /\ age[1].value = age[1].before[1].value + 1

\* C6: the ISBN check runs first: a malformed ISBN with a future year raises
\* InvalidISBNError, and InvalidPublicationYearError is raised only by the year check.
C6_IsbnErrorFirst ==
  [][(EndsBook /\ raised' # None)
       => /\ (~ThirteenDecimalDigits(call[1].isbn) /\ call[1].publication_year > Year(now))
               => raised'[1].kind = "InvalidISBNError"
          /\ raised'[1].kind = "InvalidPublicationYearError"
               => pc = "_validate_publication_year"]_vars

C8_FailureLeavesNothing ==
  [][((pc # "idle" \/ pc' # "idle") /\ ~(pc' = "idle" /\ raised' = None))
       => /\ books' = books
          /\ ratings' = ratings
          /\ pc' = "idle" => self' = None]_vars

\* a Rating constructor has raised while the caller holds one Book
C8_Witness ==
  /\ pc = "idle" /\ self = None
  /\ raised # None /\ raised[1].kind = "InvalidRatingError"
  /\ Len(books) = 1 /\ Len(ratings) = 0

C10_AgeNonNegativeMonotone ==
  age # None
    => LET a == age[1]
           h == built_books[a.book]
       IN (~h.year_back /\ "publication_year" \notin h.assigned)
            => /\ a.value >= 0
               /\ a.before # None => a.value >= a.before[1].value

\* an age that grew between two calls, under a clock whose year never decreased
C10_Witness ==
  /\ age # None
  /\ age[1].before # None
  /\ age[1].value > age[1].before[1].value
  /\ ~built_books[age[1].book].year_back
  /\ built_books[age[1].book].assigned = {}

====
